---- MODULE Spec2Model ----
(***************************************************************************)
(* RingBuffer<T, size, alloc_t> of blatt07/include/ringbuffer/ringbuffer.h *)
(* as a state machine: the members count, head and elems, the public       *)
(* operations readBuffer and writeBuffer, and the destructor with its      *)
(* release loop.  Element pointers are numbered in the order the caller    *)
(* allocates them, so the k-th call of writeBuffer passes the pointer k.   *)
(* The variables log, freed and arrayFreed record what the caller and the  *)
(* allocator observe; the code does not read them.                         *)
(***************************************************************************)
EXTENDS Integers, Sequences, FiniteSets

\* template parameter `size`: the number of slots of the instance checked
size == 3

\* the longest sequence of readBuffer / writeBuffer calls explored
MaxOps == 10

\* the value readBuffer returns on an empty buffer
nullptr == 0

\* the indeterminate content of a slot of `new T*[size]` nobody assigned yet
Uninit == -1

VARIABLES elems, head, count, pc, i, log, freed, arrayFreed

vars == <<elems, head, count, pc, i, log, freed, arrayFreed>>

Slots == 0 .. (size - 1)

----------------------------------------------------------------------------
\* Pieces of the code the operations below are assembled from.  Each is
\* preceded by faulty variants of it (a forgotten test, a forgotten wrap, a
\* wrong start index), which the properties below must tell from the code.

\* readBuffer, line 66: the empty test
ReadEmptyNever == FALSE
ReadEmptyOffByOne == count <= 1
ReadEmpty == count = 0

\* readBuffer, lines 74-78: the head after a read
NextHeadStay(h) == h
NextHeadNoWrap(h) == h + 1
NextHead(h) == IF (h + 1) = size THEN 0 ELSE h + 1

\* writeBuffer, line 93: the full test
WriteFullOffByOne == count > size
WriteFull == count = size

\* writeBuffer, line 97: the slot a write on a non-full buffer assigns
WriteSlotNoHead == count % size
WriteSlot == (head + count) % size

\* ~RingBuffer, line 44: the slot the release loop starts at
DtorFirstTail == (head + count) % size
DtorFirst == head

\* ~RingBuffer, lines 46-50: the slot the release loop goes to next
DtorNextIndexNoWrap(k) == k + 1
DtorNextIndex(k) == IF k = size - 1 THEN 0 ELSE k + 1

\* m_allocator.deallocate(elems[slot], 1), called by `by` during call number `at`
Deallocate(slot, by, at) ==
    Append(freed, [ptr |-> elems[slot], slot |-> slot, by |-> by, at |-> at])

\* the pointer the caller passes to its next writeBuffer: a fresh allocation
FreshPtr == Cardinality({n \in 1 .. Len(log) : log[n].op = "write"}) + 1

\* one entry of the call log: the call, its argument, its result, and the
\* head and count it started from
Call(op, data, ret) ==
    [op |-> op, data |-> data, ret |-> ret, head |-> head, count |-> count]

----------------------------------------------------------------------------
\* RingBuffer(): count(0), head(0), elems = new T*[size]
Init ==
    /\ elems = [s \in Slots |-> Uninit]
    /\ head = 0
    /\ count = 0
    /\ pc = "alive"
    /\ i = 0
    /\ log = <<>>
    /\ freed = <<>>
    /\ arrayFreed = 0

\* T* readBuffer()
readBuffer ==
    /\ pc = "alive"
    /\ Len(log) < MaxOps
    /\ IF ReadEmpty
         THEN /\ log' = Append(log, Call("read", nullptr, nullptr))
              /\ UNCHANGED <<head, count>>
         ELSE /\ log' = Append(log, Call("read", nullptr, elems[head]))
              /\ count' = count - 1
              /\ head' = NextHead(head)
    /\ UNCHANGED <<elems, pc, i, freed, arrayFreed>>

\* void writeBuffer(T *data)
writeBuffer(data) ==
    /\ pc = "alive"
    /\ Len(log) < MaxOps
    /\ log' = Append(log, Call("write", data, nullptr))
    /\ IF WriteFull
         THEN /\ freed' = Deallocate(head, "write", Len(log) + 1)
              /\ elems' = [elems EXCEPT ![head] = data]
              /\ UNCHANGED count
         ELSE /\ elems' = [elems EXCEPT ![WriteSlot] = data]
              /\ count' = count + 1
              /\ UNCHANGED freed
    /\ UNCHANGED <<head, pc, i, arrayFreed>>

\* ~RingBuffer(), lines 40-44: the count == 0 branch, or entry of the loop
DtorEnter ==
    /\ pc = "alive"
    /\ log' = Append(log, Call("dtor", nullptr, nullptr))
    /\ IF count = 0
         THEN /\ arrayFreed' = arrayFreed + 1
              /\ pc' = "done"
              /\ UNCHANGED i
         ELSE /\ i' = DtorFirst
              /\ pc' = "loop"
              /\ UNCHANGED arrayFreed
    /\ UNCHANGED <<elems, head, count, freed>>

\* ~RingBuffer(), lines 44-51: one iteration of the release loop
DtorIter ==
    /\ pc = "loop"
    /\ count > 0
    /\ freed' = Deallocate(i, "dtor", Len(log))
    /\ i' = DtorNextIndex(i)
    /\ count' = count - 1
    /\ UNCHANGED <<elems, head, pc, log, arrayFreed>>

\* ~RingBuffer(), lines 44 and 52: the loop ends, the array is deleted
DtorExit ==
    /\ pc = "loop"
    /\ count = 0
    /\ arrayFreed' = arrayFreed + 1
    /\ pc' = "done"
    /\ UNCHANGED <<elems, head, count, i, log, freed>>

Write == \E data \in {FreshPtr} : writeBuffer(data)

Next ==
    \/ readBuffer
    \/ Write
    \/ DtorEnter
    \/ DtorIter
    \/ DtorExit

Spec == Init /\ [][Next]_vars

\* The destructor runs to completion once entered: nothing suspends its loop.
FairSpec == Spec /\ WF_vars(DtorIter) /\ WF_vars(DtorExit)

----------------------------------------------------------------------------
\* What the call log and the allocator's record say.

IsCall(n, op) == n \in 1 .. Len(log) /\ log[n].op = op

\* calls a .. b of the log are all calls of `op`
AllCalls(a, b, op) == \A n \in a .. b : IsCall(n, op)

\* the step appends a call of `op` to the log
Calls(op) == Len(log') = Len(log) + 1 /\ log'[Len(log')].op = op

LastCall == log'[Len(log')]

\* how often pointer p was passed to deallocate / returned by readBuffer
TimesFreed(p) == Cardinality({n \in 1 .. Len(freed) : freed[n].ptr = p})
TimesReturned(p) ==
    Cardinality({n \in 1 .. Len(log) : log[n].op = "read" /\ log[n].ret = p})

\* the pointers passed to writeBuffer so far
Written == {log[n].data : n \in {m \in 1 .. Len(log) : log[m].op = "write"}}

\* the deallocate calls made during call number n of the log
FreedAt(n) == SelectSeq(freed, LAMBDA f : f.at = n)

----------------------------------------------------------------------------
\* C3: count stays within 0..size and head within 0..size-1 in every state
\* that readBuffer and writeBuffer calls (and the destructor) can reach.
C3_CapacityBound ==
    /\ count \in 0 .. size
    /\ head \in 0 .. (size - 1)

\* a full buffer whose head has wrapped from size-1 to 0 by a read and that
\* has been written while full
C3_Witness ==
    /\ count = size
    /\ \E n \in 1 .. Len(log) :
          IsCall(n, "read") /\ log[n].head = size - 1 /\ log[n].count > 0
    /\ \E n \in 1 .. Len(log) : IsCall(n, "write") /\ log[n].count = size

\* C4: readBuffer on an empty buffer returns nullptr, leaves count, head and
\* every slot unchanged and releases nothing.
C4_EmptyRead ==
    [][(Calls("read") /\ count = 0)
         => /\ LastCall.ret = nullptr
            /\ UNCHANGED <<count, head, elems, freed>>]_vars

\* an empty read happened on a buffer drained by reads after writes, at a
\* head other than 0
C4_Witness ==
    \E n \in 1 .. Len(log) :
        /\ IsCall(n, "read") /\ log[n].count = 0 /\ log[n].head # 0
        /\ log[n].ret = nullptr
        /\ \E m \in 1 .. (n - 1) : IsCall(m, "read") /\ log[m].ret # nullptr

\* C10: writeBuffer(e) on a non-full buffer stores e at slot
\* (head + count) mod size, increments count, and changes neither head nor
\* any other slot, and releases nothing.
C10_WriteNonFull ==
    [][(Calls("write") /\ count < size)
         => /\ elems' = [elems EXCEPT ![(head + count) % size] = LastCall.data]
            /\ count' = count + 1
            /\ head' = head
            /\ freed' = freed]_vars

\* a write on a non-full, non-empty buffer whose slot lies before head
C10_Witness ==
    \E n \in 1 .. Len(log) :
        /\ IsCall(n, "write")
        /\ log[n].count > 0 /\ log[n].count < size
        /\ log[n].head + log[n].count >= size

\* count as call number n of the log left it
CountAfter(n) == IF n < Len(log) THEN log[n + 1].count ELSE count

\* k writes into an empty buffer starting at call a, then k reads
WritesThenReads(a, k) ==
    /\ a + 2 * k - 1 <= Len(log)
    /\ log[a].count = 0
    /\ AllCalls(a, a + k - 1, "write")
    /\ AllCalls(a + k, a + 2 * k - 1, "read")

\* C2: k <= size writes into an empty buffer (head anywhere) with no read in
\* between are followed by k reads returning the written elements in write
\* order, also when the written slots wrap around the end of the array.
C2_FifoOrder ==
    \A a \in 1 .. Len(log) : \A k \in 1 .. size :
        WritesThenReads(a, k)
            => \A j \in 0 .. (k - 1) : log[a + k + j].ret = log[a + j].data

\* size writes starting at the last slot (so they wrap), then size reads
C2_Witness ==
    \E a \in 1 .. Len(log) :
        /\ WritesThenReads(a, size)
        /\ log[a].head = size - 1

\* C6: exactly size writes into an empty buffer followed by exactly size
\* reads return the elements in write order, release none of them, and leave
\* count = 0, so that a further read returns nullptr.
C6_RoundTrip ==
    \A a \in 1 .. Len(log) :
        WritesThenReads(a, size)
            => LET last == a + 2 * size - 1 IN
               /\ \A j \in 0 .. (size - 1) :
                     /\ log[a + size + j].ret = log[a + j].data
                     /\ TimesFreed(log[a + j].data) = 0
               /\ CountAfter(last) = 0
               /\ IsCall(last + 1, "read") => log[last + 1].ret = nullptr

\* a round trip that started at a head other than 0, followed by one more
\* read, and the buffer destroyed afterwards
C6_Witness ==
    \E a \in 1 .. Len(log) :
        /\ WritesThenReads(a, size)
        /\ log[a].head # 0
        /\ IsCall(a + 2 * size, "read")
        /\ pc = "done"

\* C1: size+1 writes into an empty buffer with no read in between release
\* the first element w1, which no later read returns, and the following
\* reads return w2, ..., w(size+1) in that order, and then nullptr.
C1_OverwritePolicy ==
    \A a \in 1 .. Len(log) :
        (/\ a + size <= Len(log)
         /\ log[a].count = 0
         /\ AllCalls(a, a + size, "write"))
            => LET full == a + size IN
               /\ TimesFreed(log[a].data) = 1
               /\ Len(FreedAt(full)) = 1
               /\ FreedAt(full)[1].ptr = log[a].data
               /\ TimesReturned(log[a].data) = 0
               /\ \A j \in 1 .. size :
                     AllCalls(full + 1, full + j, "read")
                         => log[full + j].ret = log[a + j].data
               /\ AllCalls(full + 1, full + size + 1, "read")
                     => log[full + size + 1].ret = nullptr

\* the bounded FIFO queue of capacity size that drops its oldest entry when
\* written while full, after the first n calls of the log
RECURSIVE Fifo(_)
Fifo(n) ==
    IF n = 0 THEN <<>>
    ELSE LET q == Fifo(n - 1)
             c == log[n]
         IN  IF c.op = "write"
               THEN IF Len(q) = size THEN Append(Tail(q), c.data)
                                     ELSE Append(q, c.data)
             ELSE IF c.op = "read" /\ q # <<>> THEN Tail(q)
             ELSE q

\* C9: under any interleaving of writes and reads, a read of a non-empty
\* buffer returns the element written earliest among those neither returned
\* nor released: the head of the drop-oldest FIFO queue of capacity size.
C9_ReadsOldest ==
    \A n \in 1 .. Len(log) :
        (IsCall(n, "read") /\ log[n].count > 0)
            => /\ Fifo(n - 1) # <<>>
               /\ log[n].ret = Head(Fifo(n - 1))

\* C8: writeBuffer(e) on a full buffer releases the element at slot head,
\* stores e there, advances head to (head + 1) mod size and leaves count at
\* size and every other slot unchanged.
C8_WriteFull ==
    [][(Calls("write") /\ count = size)
         => /\ Len(freed') = Len(freed) + 1
            /\ freed'[Len(freed')].ptr = elems[head]
            /\ elems' = [elems EXCEPT ![head] = LastCall.data]
            /\ head' = (head + 1) % size
            /\ count' = size]_vars

\* the call that ran the destructor: the last entry of the log once pc = "done"
DtorCall == log[Len(log)]

\* C5: the destructor calls deallocate exactly count times, once on each
\* element of the slots (head + j) mod size for 0 <= j < count, in that
\* order, and on no other slot (not at all when count = 0).
C5_DtorReleasesWindow ==
    pc = "done"
        => LET d == FreedAt(Len(log)) IN
           /\ Len(d) = DtorCall.count
           /\ \A j \in 1 .. Len(d) :
                 /\ d[j].slot = (DtorCall.head + j - 1) % size
                 /\ d[j].ptr = elems[d[j].slot]
                 /\ d[j].by = "dtor"
           /\ \A n \in 1 .. Len(freed) :
                 freed[n].by = "dtor" => freed[n].at = Len(log)

\* a destructor that ran on a window wrapping around the end of the array
\* while one slot lay outside the window
C5_Witness ==
    /\ pc = "done"
    /\ DtorCall.count >= 2
    /\ DtorCall.count < size
    /\ DtorCall.head + DtorCall.count > size

\* C7: every element accepted by writeBuffer is never both returned and
\* deallocated, nor returned twice, nor deallocated twice; once the destructor
\* has run it was either returned by exactly one readBuffer or deallocated
\* exactly once; and deallocate was called on nothing else.
C7_ReleaseExactlyOnce ==
    /\ \A p \in Written :
          /\ TimesReturned(p) + TimesFreed(p) <= 1
          /\ pc = "done" => TimesReturned(p) + TimesFreed(p) = 1
    /\ \A n \in 1 .. Len(freed) : freed[n].ptr \in Written

\* a destroyed buffer of which one element was returned by a read, one
\* released by a write on the full buffer and one by the destructor
C7_Witness ==
    /\ pc = "done"
    /\ \E p \in Written : TimesReturned(p) = 1
    /\ \E n \in 1 .. Len(freed) : freed[n].by = "write"
    /\ \E n \in 1 .. Len(freed) : freed[n].by = "dtor"

\* C11: readBuffer on a non-empty buffer returns the pointer stored at slot
\* head (not nullptr, as only non-null pointers are written), advances head
\* to (head + 1) mod size, decrements count, and neither modifies a slot nor
\* releases an element.
C11_ReadNonEmpty ==
    [][(Calls("read") /\ count > 0)
         => /\ LastCall.ret = elems[head]
            /\ LastCall.ret # nullptr
            /\ head' = (head + 1) % size
            /\ count' = count - 1
            /\ elems' = elems
            /\ freed' = freed]_vars

\* a read of the last element of the buffer, taken at the last slot, so that
\* head wrapped to 0, after a write on the full buffer
C11_Witness ==
    \E n \in 1 .. Len(log) :
        /\ IsCall(n, "read")
        /\ log[n].count = 1 /\ log[n].head = size - 1
        /\ log[n].ret # nullptr
        /\ CountAfter(n) = 0
        /\ \E m \in 1 .. (n - 1) : IsCall(m, "write") /\ log[m].count = size

\* the slots of the logical window
Window == {(head + j) % size : j \in 0 .. (count - 1)}

\* the elements written and neither returned by readBuffer nor released
Owned == {p \in Written : TimesReturned(p) = 0 /\ TimesFreed(p) = 0}

\* the calls of readBuffer that returned an element
NonNullReads ==
    {n \in 1 .. Len(log) : log[n].op = "read" /\ log[n].ret # nullptr}

\* C12: between calls of readBuffer and writeBuffer the slots of the window
\* hold pairwise distinct elements, exactly those written and neither
\* returned nor released, and count = writes - non-null reads - releases.
C12_OwnershipWindow ==
    pc = "alive"
        => /\ \A s \in Window : \A t \in Window : s # t => elems[s] # elems[t]
           /\ {elems[s] : s \in Window} = Owned
           /\ Cardinality(Window) = count
           /\ count = Cardinality(Written) - Cardinality(NonNullReads)
                        - Len(freed)

\* a window of at least two elements that wraps around the end of the array,
\* after a release by a write on the full buffer and after a non-null read
C12_Witness ==
    /\ pc = "alive"
    /\ count >= 2
    /\ head + count > size
    /\ Len(freed) > 0
    /\ NonNullReads # {}

\* the call of writeBuffer that passed pointer p
WriteCallOf(p) ==
    CHOOSE n \in 1 .. Len(log) : IsCall(n, "write") /\ log[n].data = p

\* the element written earliest among those the buffer owns
Oldest ==
    CHOOSE p \in Owned : \A q \in Owned : WriteCallOf(p) <= WriteCallOf(q)

\* writeBuffer can be called in every state of a live buffer (the model only
\* stops after MaxOps calls)
WriteEnabled == (pc = "alive" /\ Len(log) < MaxOps) => ENABLED Write

\* a call of writeBuffer releases one element if the buffer was full, the
\* oldest one, and none otherwise, and leaves its argument inside the window
WriteReleasesOldest ==
    Calls("write")
        => /\ Len(freed') = Len(freed) + (IF count = size THEN 1 ELSE 0)
           /\ SubSeq(freed', 1, Len(freed)) = freed
           /\ count = size => freed'[Len(freed')].ptr = Oldest
           /\ LastCall.data \in {elems'[s] : s \in Window'}

\* the element of a write that only reads follow is returned by one of the
\* next count reads
WrittenIsRead ==
    \A n \in 1 .. Len(log) :
        (IsCall(n, "write") /\ AllCalls(n + 1, n + CountAfter(n), "read"))
            => \E j \in 1 .. CountAfter(n) : log[n + j].ret = log[n].data

\* C13: writeBuffer is enabled in every reachable state of a live buffer,
\* releases at most one element per call (exactly one iff count = size
\* before the call, and then the oldest element), leaves its argument inside
\* the logical window, and if only reads follow, the argument is returned by
\* one of the next count reads.
C13_WriteAlwaysSucceeds ==
    /\ []WriteEnabled
    /\ [][WriteReleasesOldest]_vars
    /\ []WrittenIsRead

\* the slots some call of writeBuffer has assigned: writeBuffer stores only
\* pointers the caller allocated, never the indeterminate value
Assigned == {s \in Slots : elems[s] # Uninit}

\* C14: on a buffer whose slots start uninitialised, every slot whose content
\* readBuffer returns or writeBuffer or the destructor passes to deallocate
\* was assigned by an earlier writeBuffer.
C14_NoUnwrittenAccess ==
    /\ \A n \in 1 .. Len(log) :
          (IsCall(n, "read") /\ log[n].ret # nullptr)
              => /\ log[n].ret # Uninit
                 /\ \E m \in 1 .. (n - 1) :
                       IsCall(m, "write") /\ log[m].data = log[n].ret
    /\ \A f \in 1 .. Len(freed) :
          /\ freed[f].ptr # Uninit
          /\ freed[f].slot \in Assigned
          /\ \E m \in 1 .. freed[f].at :
                IsCall(m, "write") /\ log[m].data = freed[f].ptr
                    /\ (freed[f].by = "write" => m < freed[f].at)
    /\ pc = "loop" /\ count > 0 => i \in Assigned

\* a destroyed buffer with a slot nobody ever assigned, of which one element
\* was returned by a read and one released by the destructor
C14_Witness ==
    /\ pc = "done"
    /\ Assigned # Slots
    /\ NonNullReads # {}
    /\ \E f \in 1 .. Len(freed) : freed[f].by = "dtor"

\* the iterations the release loop has made: one deallocate call each
DtorIterations == Len(FreedAt(Len(log)))

\* the loop index stays within 0 .. size-1, the iterations made and those
\* left add up to the count the destructor started with, and the array is
\* deleted exactly once, when the destructor ends, on either branch
DtorLoopState ==
    /\ i \in Slots
    /\ pc = "loop" => DtorIterations + count = DtorCall.count
    /\ pc = "done" => count = 0 /\ DtorIterations = DtorCall.count
    /\ arrayFreed = (IF pc = "done" THEN 1 ELSE 0)

\* an iteration moves the index to the next slot, from size-1 to 0
DtorLoopStep ==
    (pc = "loop" /\ count' # count)
        => /\ count' = count - 1
           /\ i' = (IF i = size - 1 THEN 0 ELSE i + 1)
           /\ pc' = "loop"

\* C15: from every reachable (head, count) the destructor's release loop
\* ends after exactly count iterations with count = 0, its index stays within
\* 0 .. size-1 and wraps from size-1 to 0, and the backing array is deleted
\* exactly once on either branch.
C15_DtorTerminates ==
    /\ []DtorLoopState
    /\ [][DtorLoopStep]_vars
    /\ (pc = "loop") ~> (pc = "done" /\ count = 0)
    /\ [][pc = "alive" /\ pc' # "alive" /\ count = 0
            => pc' = "done" /\ arrayFreed' = 1]_vars

\* a destructor that finished after size iterations whose index wrapped
C15_Witness ==
    /\ pc = "done"
    /\ DtorCall.count = size
    /\ DtorCall.head # 0
    /\ DtorIterations = size
    /\ arrayFreed = 1

====
